---------------------------- MODULE Spec2Model ----------------------------
(***************************************************************************)
(* A model of the ISIR monitor (src/app.py): the engine ISIRChecker with   *)
(* its seen-id set, the pass fetch_and_parse, and the /check endpoint that *)
(* serves every request from the one module-level engine.                  *)
(*                                                                         *)
(* Texts are sequences of one-character strings, so that the regular       *)
(* expressions and the natural sort key are computed character by          *)
(* character.  URLs are sequences of string chunks, so that startswith and *)
(* concatenation are computed on them.                                     *)
(***************************************************************************)
EXTENDS Integers, Sequences, FiniteSets, TLC

(***************************************************************************)
(* Bounds of the model.                                                    *)
(***************************************************************************)
\* the number of /check requests served in one behaviour
MaxPasses == 3
\* the number of data rows of a table in the documents of the diff engine
MaxRows == 2
\* the number of data rows of a table in the documents of the grouping
MaxGroupRows == 3
\* the number of /check requests of the page that await their response
MaxInFlight == 3
\* the number of ticks of the page's timer after the countdown reached zero
MaxOverdue == 3

(***************************************************************************)
(* Texts.                                                                  *)
(***************************************************************************)
\* the characters [0-9]
Digits == <<"0", "1", "2", "3", "4", "5", "6", "7", "8", "9">>

\* a decimal digit outside ASCII, FULLWIDTH DIGIT ONE, written by its code
\* point: \d matches it, str.isdigit holds of it and int() reads it as 1,
\* while [0-9] does not match it
FW1 == "U+FF11"

\* the characters of the model in code-point order
Alphabet ==
  <<" ", "&", "-", ".", "0", "1", "2", "3", "4", "5", "6", "7", "8", "9",
    ";", "A", "B", "C", "D", "O", "P", "X",
    "a", "b", "c", "d", "e", "h", "m", "n", "o", "p", "r", "s", "t", "x",
    FW1>>

IndexIn(seq, c) == CHOOSE i \in 1..Len(seq) : seq[i] = c

\* [0-9] of line 26
IsDigit(c) == \E i \in 1..Len(Digits) : Digits[i] = c

\* \d of lines 145, 168, 207 and the characters of str.isdigit
IsDecimal(c) == IsDigit(c) \/ c = FW1

DigitVal(c) == IF c = FW1 THEN 1 ELSE IndexIn(Digits, c) - 1

Ord(c) == IndexIn(Alphabet, c)

UpperCase == <<"A", "B", "C", "D", "O", "P", "X">>
LowerCase == <<"a", "b", "c", "d", "o", "p", "x">>

LowerChar(c) ==
  IF \E i \in 1..Len(UpperCase) : UpperCase[i] = c
  THEN LowerCase[IndexIn(UpperCase, c)] ELSE c

UpperChar(c) ==
  IF \E i \in 1..Len(LowerCase) : LowerCase[i] = c
  THEN UpperCase[IndexIn(LowerCase, c)] ELSE c

\* str.lower and str.upper
Lower(s) == [i \in 1..Len(s) |-> LowerChar(s[i])]
Upper(s) == [i \in 1..Len(s) |-> UpperChar(s[i])]

\* str.isdigit: non-empty and all digits
IsDigitStr(s) == Len(s) > 0 /\ \A i \in 1..Len(s) : IsDecimal(s[i])

\* int(text) of a digit string
RECURSIVE ToInt(_)
ToInt(s) ==
  IF Len(s) = 0 THEN 0
  ELSE 10 * ToInt(SubSeq(s, 1, Len(s) - 1)) + DigitVal(s[Len(s)])

\* the length of the longest run of digits (digit = TRUE) or of non-digits
\* (digit = FALSE) that starts at position i of s
RECURSIVE RunLen(_, _, _)
RunLen(s, i, digit) ==
  IF i > Len(s) \/ IsDigit(s[i]) # digit THEN 0
  ELSE 1 + RunLen(s, i + 1, digit)

\* the length of the longest run of \d that starts at position i of s
RECURSIVE DecimalRunLen(_, _)
DecimalRunLen(s, i) ==
  IF i > Len(s) \/ ~IsDecimal(s[i]) THEN 0 ELSE 1 + DecimalRunLen(s, i + 1)

Reverse(seq) == [i \in 1..Len(seq) |-> seq[Len(seq) + 1 - i]]

EMPTY == <<>>
NBSP == <<"&", "n", "b", "s", "p", ";">>
Other == <<"O", "t", "h", "e", "r">>
Space == <<" ">>

(***************************************************************************)
(* ISIRChecker.natural_sort_key and the order sorted() derives from it.    *)
(***************************************************************************)
\* re.split('([0-9]+)', s) from position i: text, digits, text, ..., text
RECURSIVE SplitRuns(_, _)
SplitRuns(s, i) ==
  LET n == RunLen(s, i, FALSE)
      text == SubSeq(s, i, i + n - 1)
      j == i + n
  IN IF j > Len(s) THEN <<text>>
     ELSE LET d == RunLen(s, j, TRUE)
          IN <<text, SubSeq(s, j, j + d - 1)>> \o SplitRuns(s, j + d)

KeyPart(text) ==
  IF IsDigitStr(text) THEN [int |-> ToInt(text)] ELSE [str |-> Lower(text)]

natural_sort_key(s) ==
  LET parts == SplitRuns(s, 1) IN [i \in 1..Len(parts) |-> KeyPart(parts[i])]

IsInt(part) == "int" \in DOMAIN part

\* str < str of Python: by code point, a proper prefix first
RECURSIVE StrLess(_, _)
StrLess(a, b) ==
  IF Len(b) = 0 THEN FALSE
  ELSE IF Len(a) = 0 THEN TRUE
  ELSE IF Ord(a[1]) # Ord(b[1]) THEN Ord(a[1]) < Ord(b[1])
  ELSE StrLess(Tail(a), Tail(b))

\* list < list of Python: the first pair of unequal elements decides, and
\* comparing an int with a str raises TypeError ("err")
RECURSIVE KeyCmp(_, _)
KeyCmp(a, b) ==
  IF Len(a) = 0 /\ Len(b) = 0 THEN "eq"
  ELSE IF Len(a) = 0 THEN "lt"
  ELSE IF Len(b) = 0 THEN "gt"
  ELSE IF a[1] = b[1] THEN KeyCmp(Tail(a), Tail(b))
  ELSE IF IsInt(a[1]) # IsInt(b[1]) THEN "err"
  ELSE IF IsInt(a[1]) THEN (IF a[1].int < b[1].int THEN "lt" ELSE "gt")
  ELSE IF StrLess(a[1].str, b[1].str) THEN "lt" ELSE "gt"

\* sorted() is stable: x goes after every element that is not greater
RECURSIVE InsertKey(_, _)
InsertKey(sorted, x) ==
  IF Len(sorted) = 0 THEN <<x>>
  ELSE IF KeyCmp(natural_sort_key(x), natural_sort_key(sorted[1])) = "lt"
       THEN <<x>> \o sorted
       ELSE <<sorted[1]>> \o InsertKey(Tail(sorted), x)

RECURSIVE SortedKeys(_)
SortedKeys(keys) ==
  IF Len(keys) = 0 THEN <<>>
  ELSE InsertKey(SortedKeys(SubSeq(keys, 1, Len(keys) - 1)), keys[Len(keys)])

\* sorted() raises when two of the keys cannot be compared: to place two
\* keys that agree up to a part where one holds an int and the other a str,
\* the sort has to compare two keys that differ first at that part
SortRaises(keys) ==
  \E i, j \in 1..Len(keys) :
    KeyCmp(natural_sort_key(keys[i]), natural_sort_key(keys[j])) = "err"

(***************************************************************************)
(* The markup of a document, as BeautifulSoup presents it to the pass.     *)
(*   cell: text      get_text(separator=' ', strip=True) of the <td>       *)
(*         href      the href of the first <a> of the cell whose href      *)
(*                   matches dokument\.PDF\?id= (NoHref when none)         *)
(*         onclicks  the onclick values of the cell, in document order     *)
(*         span      [present, classes]: whether the cell has a <span>,    *)
(*                   and the class list of the first one                   *)
(*   row:  the sequence of the <td> cells of a <tr>                        *)
(*   div:  suffix    the id of a div whose id starts with zalozka, less    *)
(*                   that prefix                                           *)
(*         has_table whether it holds an evidenceUpadcuDetailTable         *)
(*         table     the <tr> rows of that table, header first             *)
(***************************************************************************)
NoHref == <<>>
\* no match of a regular expression: no text, as no text holds a chunk
NoMatch == <<"no match">>

HOST == "https://isir.justice.cz"
DOCPATH == "isir/doc/dokument.PDF?id="

\* str.startswith on a URL given as chunks
StartsWithSlash(raw) == raw[1] = "/"
StartsWithHttp(raw) == raw[1] \in {HOST, "http://mirror.example"}

\* lines 128-133: the absolute URL of a direct link
AbsoluteUrl(raw_href) ==
  IF StartsWithSlash(raw_href) THEN <<HOST>> \o raw_href
  ELSE IF StartsWithHttp(raw_href) THEN raw_href
  ELSE <<HOST, "/">> \o raw_href

\* line 145: zobrazDokument\s*\(\s*['"]?(\d+)['"]?\s*\) searched in an onclick
\* value [call, arg]; the match's group(1), or NoMatch
OnclickMatch(onclick_val) ==
  IF onclick_val.call = "zobrazDokument" /\ IsDigitStr(onclick_val.arg)
  THEN onclick_val.arg ELSE NoMatch

\* line 149: the URL synthesized from an inline reference
SynthUrl(doc_id_extracted) == <<HOST, "/", DOCPATH, doc_id_extracted>>

\* lines 141-151: the first onclick of the cell that matches
RECURSIVE FirstOnclick(_, _)
FirstOnclick(onclicks, i) ==
  IF i > Len(onclicks) THEN NoMatch
  ELSE IF OnclickMatch(onclicks[i]) # NoMatch THEN OnclickMatch(onclicks[i])
  ELSE FirstOnclick(onclicks, i + 1)

\* a scan that tries the inline references of a cell before its direct link
RECURSIVE FindPdfInlineFirst(_, _)
FindPdfInlineFirst(cells, i) ==
  IF i > Len(cells) THEN [pdf_url |-> <<"#">>, has_valid_doc |-> FALSE]
  ELSE IF FirstOnclick(cells[i].onclicks, 1) # NoMatch
       THEN [pdf_url |-> SynthUrl(FirstOnclick(cells[i].onclicks, 1)),
             has_valid_doc |-> TRUE]
  ELSE IF cells[i].href # NoHref
       THEN [pdf_url |-> AbsoluteUrl(cells[i].href), has_valid_doc |-> TRUE]
  ELSE FindPdfInlineFirst(cells, i + 1)

\* lines 119-157: scan the cells left to right; in each cell the direct link
\* is tried first, then the onclick references
RECURSIVE FindPdf(_, _)
FindPdf(cells, i) ==
  IF i > Len(cells) THEN [pdf_url |-> <<"#">>, has_valid_doc |-> FALSE]
  ELSE IF cells[i].href # NoHref
       THEN [pdf_url |-> AbsoluteUrl(cells[i].href), has_valid_doc |-> TRUE]
  ELSE IF FirstOnclick(cells[i].onclicks, 1) # NoMatch
       THEN [pdf_url |-> SynthUrl(FirstOnclick(cells[i].onclicks, 1)),
             has_valid_doc |-> TRUE]
  ELSE FindPdf(cells, i + 1)

\* lines 109-115
IsGreyed(cell) == cell.span.present /\ "posledniCislo" \notin cell.span.classes

\* lines 168 and 207: re.match('(<letter>\d+)', doc_id), its group(1) or NoMatch
PrefixMatch(section_letter, doc_id) ==
  IF Len(doc_id) >= 2 /\ <<doc_id[1]>> = section_letter /\ IsDecimal(doc_id[2])
  THEN SubSeq(doc_id, 1, 1 + DecimalRunLen(doc_id, 2))
  ELSE NoMatch

\* cells[k] of Python, zero-based; IndexError when the row is too short
HasCell(cells, k) == k + 1 <= Len(cells)
CellText(cells, k) == cells[k + 1].text

\* lines 162 and 174: the guard under which the metadata column is read
ReadsMeta(section_letter, cells) ==
  \/ section_letter = <<"C">> /\ Len(cells) > 8
  \/ section_letter = <<"P">> /\ Len(cells) > 6

\* lines 164 and 177: both branches read cells[8]
MetaRaises(section_letter, cells) ==
  ReadsMeta(section_letter, cells) /\ ~HasCell(cells, 8)

\* lines 160-184: additional_info of the row
AdditionalInfo(section_letter, cells) ==
  IF ReadsMeta(section_letter, cells) /\ CellText(cells, 8) \notin {NBSP, EMPTY}
  THEN CellText(cells, 8) ELSE EMPTY

\* an update that lets a later value replace the one stored for the key
UpdateGroupMetaOverwrite(group_metadata, section_letter, doc_id, additional_info) ==
  LET group_key == PrefixMatch(section_letter, doc_id)
  IN IF additional_info # EMPTY /\ group_key # NoMatch
     THEN [k \in DOMAIN group_metadata \cup {group_key} |->
             IF k = group_key THEN additional_info ELSE group_metadata[k]]
     ELSE group_metadata

\* lines 167-172, 180-184: the first value stored for a group key is kept
UpdateGroupMeta(group_metadata, section_letter, doc_id, additional_info) ==
  LET group_key == PrefixMatch(section_letter, doc_id)
  IN IF additional_info # EMPTY /\ group_key # NoMatch
        /\ group_key \notin DOMAIN group_metadata
     THEN [k \in DOMAIN group_metadata \cup {group_key} |->
             IF k = group_key THEN additional_info ELSE group_metadata[k]]
     ELSE group_metadata

\* a test without the baseline condition
IsNewNoBaseline(doc_id, seen) == doc_id \notin seen

\* line 188
IsNew(doc_id, seen) == doc_id \notin seen /\ Cardinality(seen) > 0

\* lines 103-105, 192-201: the entry of an accepted row
Entry(section_letter, cells, seen) ==
  LET pdf == FindPdf(cells, 1)
  IN [id |-> CellText(cells, 0),
      time |-> CellText(cells, 1) \o Space \o CellText(cells, 2),
      desc |-> CellText(cells, 3),
      pdf_url |-> pdf.pdf_url,
      is_new |-> IsNew(CellText(cells, 0), seen),
      additional_info |-> AdditionalInfo(section_letter, cells),
      is_greyed |-> IsGreyed(cells[1]),
      has_valid_doc |-> pdf.has_valid_doc]

(***************************************************************************)
(* Lines 205-233: grouping of a C or P section.  groups is the dict of the *)
(* code in insertion order: a sequence of [group, entries, metadata].      *)
(***************************************************************************)
GroupKey(section_letter, entry) ==
  IF PrefixMatch(section_letter, entry.id) # NoMatch
  THEN PrefixMatch(section_letter, entry.id) ELSE Other

GroupIndex(groups, key) ==
  IF \E i \in 1..Len(groups) : groups[i].group = key
  THEN CHOOSE i \in 1..Len(groups) : groups[i].group = key
  ELSE 0

\* group_metadata.get(group_key, "")
MetaGet(group_metadata, key) ==
  IF key \in DOMAIN group_metadata THEN group_metadata[key] ELSE EMPTY

\* a step that opens a group for every entry
AddToGroupsNewGroup(groups, section_letter, group_metadata, entry) ==
  LET key == GroupKey(section_letter, entry)
  IN Append(groups, [group |-> key, entries |-> <<entry>>,
                     metadata |-> MetaGet(group_metadata, key)])

AddToGroups(groups, section_letter, group_metadata, entry) ==
  LET key == GroupKey(section_letter, entry)
      at == GroupIndex(groups, key)
  IN IF at = 0
     THEN Append(groups, [group |-> key, entries |-> <<entry>>,
                          metadata |-> MetaGet(group_metadata, key)])
     ELSE [groups EXCEPT ![at].entries = Append(@, entry)]

RECURSIVE BuildGroups(_, _, _)
BuildGroups(parsed_entries, section_letter, group_metadata) ==
  IF Len(parsed_entries) = 0 THEN <<>>
  ELSE AddToGroups(
         BuildGroups(SubSeq(parsed_entries, 1, Len(parsed_entries) - 1),
                     section_letter, group_metadata),
         section_letter, group_metadata, parsed_entries[Len(parsed_entries)])

GroupKeys(groups) == [i \in 1..Len(groups) |-> groups[i].group]

\* lines 222-230
SortedGroups(groups) ==
  LET sorted_keys == SortedKeys(GroupKeys(groups))
  IN [i \in 1..Len(sorted_keys) |-> groups[GroupIndex(groups, sorted_keys[i])]]

Grouped(section_letter) == section_letter \in {<<"C">>, <<"P">>}

SectionTags == {<<"A">>, <<"B">>, <<"C">>, <<"D">>, <<"P">>}

(***************************************************************************)
(* Lines 47-78: the case information.  The detail table is                 *)
(* [present, rows]; a row of it is                                         *)
(*   cells    the number of its <td> cells                                 *)
(*   nadpis   whether 'nadpis' occurs in the row's markup                  *)
(*   h2       the texts of its <h2> elements                               *)
(*   label    the label cell's text, as chunks (the module writes the two  *)
(*            marker phrases of lines 64 and 66 without diacritics)        *)
(*   value    the last cell's text                                         *)
(*   strong   group(1) of the <strong> pattern in the last cell            *)
(*   court    group(1) of the <strong><font> pattern in the last cell      *)
(***************************************************************************)
EmptyDict == <<>>

DictSet(dict, key, value) ==
  [k \in DOMAIN dict \cup {key} |-> IF k = key THEN value ELSE dict[k]]

Contains(label, phrase) == \E i \in 1..Len(label) : label[i] = phrase

\* str.strip() of a match's group, '' when the pattern does not match
GroupOrEmpty(m) == IF m = NoMatch THEN EMPTY ELSE m

DetailRow(case_info, row) ==
  IF row.cells < 2 THEN case_info
  ELSE IF row.nadpis
       THEN (IF Len(row.h2) >= 2 THEN DictSet(case_info, "name", row.h2[2])
             ELSE case_info)
  ELSE IF Contains(row.label, "Aktualni stav")
       THEN DictSet(case_info, "status", row.value)
  ELSE IF Contains(row.label, "Spisova znacka")
       THEN DictSet(DictSet(case_info, "case_number", GroupOrEmpty(row.strong)),
                    "court", GroupOrEmpty(row.court))
  ELSE case_info

RECURSIVE DetailRows(_, _)
DetailRows(case_info, rows) ==
  IF Len(rows) = 0 THEN case_info
  ELSE DetailRows(DetailRow(case_info, Head(rows)), Tail(rows))

CaseInfo(detail_table) ==
  IF detail_table.present THEN DetailRows(EmptyDict, detail_table.rows)
  ELSE EmptyDict

(***************************************************************************)
(* fetch_and_parse, as the steps of one call.  The locals of a call are a  *)
(* record:                                                                 *)
(*   pc        "idle", "section" (at the head of the loop of line 82),     *)
(*             "row" (at the head of the loop of line 97), "done" (the     *)
(*             result is computed and not yet delivered)                   *)
(*   div       the index of the next section div                           *)
(*   rows      the rows of the current table still to process              *)
(* and the variables of the code under their names.                        *)
(***************************************************************************)
NoDoc == [detail |-> [present |-> FALSE, rows |-> <<>>], divs |-> <<>>]
NoResult == [status |-> "none"]

Idle ==
  [pc |-> "idle", url |-> "", doc |-> NoDoc, div |-> 0,
   section_letter |-> EMPTY, rows |-> <<>>, parsed_entries |-> <<>>,
   group_metadata |-> EmptyDict, sections |-> EmptyDict,
   current_batch_ids |-> {}, case_info |-> EmptyDict, result |-> NoResult]

\* the text of the TypeError of line 222
SortMessage == "'<' not supported between instances of 'int' and 'str'"

\* a handler that reports the failure together with the sections built so far
RaiseWithSections(c, message) ==
  [c EXCEPT !.pc = "done",
            !.result = [status |-> "error", message |-> message,
                        sections |-> c.sections]]

\* lines 242-244
Raise(c, message) ==
  [c EXCEPT !.pc = "done",
            !.result = [status |-> "error", message |-> message]]

\* a fetch that reads the rows of the detail table without the test of line 50
FetchDetailRequired(url, response) ==
  IF response.kind # "ok"
  THEN Raise([Idle EXCEPT !.url = url], response.message)
  ELSE IF ~response.doc.detail.present
  THEN Raise([Idle EXCEPT !.url = url],
             "'NoneType' object has no attribute 'find_all'")
  ELSE [Idle EXCEPT !.pc = "section", !.url = url, !.doc = response.doc,
                    !.div = 1, !.case_info = CaseInfo(response.doc.detail)]

\* lines 36-78: the fetch, the case information, the empty accumulators
Fetch(url, response) ==
  IF response.kind # "ok"
  THEN Raise([Idle EXCEPT !.url = url], response.message)
  ELSE [Idle EXCEPT !.pc = "section", !.url = url, !.doc = response.doc,
                    !.div = 1, !.case_info = CaseInfo(response.doc.detail)]

\* table.find_all('tr')[1:]
DataRows(table) == IF Len(table) = 0 THEN <<>> ELSE Tail(table)

\* a section step that keeps the rows in the order of the document
EnterSectionSourceOrder(c) ==
  LET section_div == c.doc.divs[c.div]
      section_letter == Upper(section_div.suffix)
  IN IF section_letter \notin SectionTags
     THEN [c EXCEPT !.div = @ + 1]
     ELSE IF ~section_div.has_table
     THEN [c EXCEPT !.div = @ + 1,
                    !.sections = DictSet(@, section_letter, <<>>)]
     ELSE [c EXCEPT !.pc = "row",
                    !.section_letter = section_letter,
                    !.rows = DataRows(section_div.table),
                    !.parsed_entries = <<>>,
                    !.group_metadata = EmptyDict]

\* lines 82-95: one section div
EnterSection(c) ==
  LET section_div == c.doc.divs[c.div]
      section_letter == Upper(section_div.suffix)
  IN IF section_letter \notin SectionTags
     THEN [c EXCEPT !.div = @ + 1]
     ELSE IF ~section_div.has_table
     THEN [c EXCEPT !.div = @ + 1,
                    !.sections = DictSet(@, section_letter, <<>>)]
     ELSE [c EXCEPT !.pc = "row",
                    !.section_letter = section_letter,
                    !.rows = Reverse(DataRows(section_div.table)),
                    !.parsed_entries = <<>>,
                    !.group_metadata = EmptyDict]

\* a row step that collects the id in lower case
ParseRowLowerId(c, seen) ==
  LET cells == Head(c.rows)
      entry == Entry(c.section_letter, cells, seen)
  IN IF Len(cells) < 5 THEN [c EXCEPT !.rows = Tail(@)]
     ELSE IF MetaRaises(c.section_letter, cells)
     THEN Raise(c, "list index out of range")
     ELSE [c EXCEPT !.rows = Tail(@),
                    !.group_metadata =
                       UpdateGroupMeta(@, c.section_letter, entry.id,
                                       entry.additional_info),
                    !.current_batch_ids = @ \cup {Lower(entry.id)},
                    !.parsed_entries = Append(@, entry)]

\* a row step that accepts rows of four cells
ParseRowFourColumns(c, seen) ==
  LET cells == Head(c.rows)
      entry == Entry(c.section_letter, cells, seen)
  IN IF Len(cells) < 4 THEN [c EXCEPT !.rows = Tail(@)]
     ELSE IF MetaRaises(c.section_letter, cells)
     THEN Raise(c, "list index out of range")
     ELSE [c EXCEPT !.rows = Tail(@),
                    !.group_metadata =
                       UpdateGroupMeta(@, c.section_letter, entry.id,
                                       entry.additional_info),
                    !.current_batch_ids = @ \cup {entry.id},
                    !.parsed_entries = Append(@, entry)]

\* lines 97-201: one row, read against the engine's seen ids
ParseRow(c, seen) ==
  LET cells == Head(c.rows)
      entry == Entry(c.section_letter, cells, seen)
  IN IF Len(cells) < 5 THEN [c EXCEPT !.rows = Tail(@)]
     ELSE IF MetaRaises(c.section_letter, cells)
     THEN Raise(c, "list index out of range")
     ELSE [c EXCEPT !.rows = Tail(@),
                    !.group_metadata =
                       UpdateGroupMeta(@, c.section_letter, entry.id,
                                       entry.additional_info),
                    !.current_batch_ids = @ \cup {entry.id},
                    !.parsed_entries = Append(@, entry)]

\* lines 203-233: the section's value, grouped for C and P
CloseSection(c) ==
  LET groups == BuildGroups(c.parsed_entries, c.section_letter,
                            c.group_metadata)
  IN IF ~Grouped(c.section_letter)
     THEN [c EXCEPT !.pc = "section", !.div = @ + 1,
                    !.sections = DictSet(@, c.section_letter,
                                         c.parsed_entries)]
     ELSE IF SortRaises(GroupKeys(groups))
     THEN Raise(c, SortMessage)
     ELSE [c EXCEPT !.pc = "section", !.div = @ + 1,
                    !.sections = DictSet(@, c.section_letter,
                                         SortedGroups(groups))]

\* line 240
Succeed(c) ==
  [c EXCEPT !.pc = "done",
            !.result = [status |-> "success", sections |-> c.sections,
                        case_info |-> c.case_info]]

AtRow(c) == c.pc = "row" /\ Len(c.rows) > 0
AtEndOfRows(c) == c.pc = "row" /\ Len(c.rows) = 0
AtSection(c) == c.pc = "section" /\ c.div <= Len(c.doc.divs)
AtCommit(c) == c.pc = "section" /\ c.div > Len(c.doc.divs)

(***************************************************************************)
(* Documents the remote site may serve.                                    *)
(***************************************************************************)
NoSpanAt == [present |-> FALSE, classes |-> {}]

PlainCell(text) ==
  [text |-> text, href |-> NoHref, onclicks |-> <<>>, span |-> NoSpanAt]

\* the texts of the date, time and description columns and of the others
Filler == <<<<"x">>, <<"1">>, <<"2">>, <<"d">>, <<"x">>, <<"x">>, <<"x">>,
            <<"x">>, <<"x">>, <<"x">>>>

\* a row of n cells without links, the id in its first cell
PlainRow(id, n) ==
  [i \in 1..n |-> PlainCell(IF i = 1 THEN id ELSE Filler[i])]

\* a row of n cells whose cell of index 8, if it has one, holds meta
MetaRow(id, n, meta) ==
  [i \in 1..n |-> PlainCell(IF i = 1 THEN id
                            ELSE IF i = 9 THEN meta ELSE Filler[i])]

\* the header row holds <th> cells only
Header == <<>>

Div(suffix, rows) ==
  [suffix |-> suffix, has_table |-> TRUE, table |-> <<Header>> \o rows]

BareDiv(suffix) == [suffix |-> suffix, has_table |-> FALSE, table |-> <<>>]

NoDetail == [present |-> FALSE, rows |-> <<>>]

Doc(divs) == [detail |-> NoDetail, divs |-> divs]

SeqsUpTo(S, n) == UNION {[1..k -> S] : k \in 0..n}

A1 == <<"A", "1">>
A2 == <<"A", "2">>
A3 == <<"A", "3">>
P1 == <<"P", "1">>
P2 == <<"P", "2">>

\* section A with up to MaxRows accepted rows
ListDocs ==
  {Doc(<<Div(<<"A">>, [i \in 1..Len(ids) |-> PlainRow(ids[i], 5)])>>) :
     ids \in SeqsUpTo({A1, A2}, MaxRows)}

IdC1 == <<"C", "1">>
IdC2 == <<"C", "2">>

\* a table whose first row, the header, is made of <td> cells, next to a
\* grouped table, and a table without rows
OrderDoc ==
  Doc(<<[suffix |-> <<"A">>, has_table |-> TRUE,
         table |-> <<PlainRow(A3, 5), PlainRow(A1, 5), PlainRow(A2, 5)>>],
        Div(<<"C">>, <<PlainRow(IdC1, 5), PlainRow(IdC2, 5),
                       MetaRow(IdC1, 9, <<"m", "1">>)>>),
        [suffix |-> <<"D">>, has_table |-> TRUE, table |-> <<>>]>>)

\* a rejected row, an ignored container, a container without table, a row
\* of section P on which the pass raises after an id was collected, and a
\* document without any section
OddDocs ==
  {Doc(<<Div(<<"A">>, <<PlainRow(A3, 4), PlainRow(A1, 5)>>)>>),
   Doc(<<Div(<<"X">>, <<PlainRow(A3, 5)>>), BareDiv(<<"a">>)>>),
   Doc(<<Div(<<"a">>, <<PlainRow(A2, 5)>>),
         Div(<<"P">>, <<PlainRow(P2, 7), PlainRow(P1, 5)>>)>>),
   Doc(<<>>)}

(***************************************************************************)
(* Documents for one pass: rows with links in every column, and C and P    *)
(* tables with rows of every width and metadata.                           *)
(***************************************************************************)
Onclick(call, arg) == [call |-> call, arg |-> arg]

\* what a cell may hold: nothing, a direct link in one of its forms, inline
\* references, or both
LinkKinds ==
  {[href |-> NoHref, onclicks |-> <<>>],
   [href |-> <<"/", DOCPATH, <<"7">>>>, onclicks |-> <<>>],
   [href |-> <<DOCPATH, <<"8">>>>, onclicks |-> <<>>],
   [href |-> <<"http://mirror.example", "/", "dokument.pdf?id=", <<"9">>>>,
    onclicks |-> <<>>],
   [href |-> NoHref, onclicks |-> <<Onclick("zobrazDokument", <<"7">>)>>],
   [href |-> NoHref,
    onclicks |-> <<Onclick("alert", <<"1">>),
                   Onclick("zobrazDokument", <<"1", "2">>)>>],
   [href |-> NoHref, onclicks |-> <<Onclick("zobrazDokument", <<"x">>)>>],
   [href |-> <<"/", DOCPATH, <<"8">>>>,
    onclicks |-> <<Onclick("zobrazDokument", <<"9">>)>>]}

SpanKinds ==
  {NoSpanAt, [present |-> TRUE, classes |-> {"posledniCislo"}],
   [present |-> TRUE, classes |-> {"cislo"}]}

LinkCols == 1..4

\* a row of 5 cells, a link kind in each of its first four
LinkRows ==
  {[i \in 1..5 |->
      [text |-> IF i = 1 THEN A1 ELSE Filler[i],
       href |-> IF i \in LinkCols THEN k[i].href ELSE NoHref,
       onclicks |-> IF i \in LinkCols THEN k[i].onclicks ELSE <<>>,
       span |-> NoSpanAt]] : k \in [LinkCols -> LinkKinds]}

LinkDocs == {Doc(<<Div(<<"A">>, <<r>>)>>) : r \in LinkRows}

SpanDocs ==
  {Doc(<<Div(<<"B">>, <<[PlainRow(A1, 5) EXCEPT ![1].span = sp]>>)>>) :
     sp \in SpanKinds}

M1 == <<"m", "1">>
M2 == <<"m", "2">>

\* the rows of a grouped section: ids of the groups 1 (two of them), 2 and
\* 10, one without the prefix and one whose number ends in a digit outside
\* ASCII, in rows of 4 to 9 cells
GroupRowsOf(letter) ==
  LET g1 == letter \o <<"1">>
      g1w == letter \o <<"1", FW1>>
      g1a == letter \o <<"1", "-", "2">>
      g2 == letter \o <<"2">>
      g10 == letter \o <<"1", "0">>
      x == <<"x">>
  IN {PlainRow(id, 5) : id \in {g1, g2, g10, x, g1w}}
     \cup {MetaRow(g1, 9, M1), MetaRow(x, 9, M1), MetaRow(g1a, 9, M2),
           MetaRow(g1, 9, NBSP), MetaRow(g2, 9, EMPTY), PlainRow(g1, 7),
           PlainRow(g2, 8), PlainRow(g10, 4)}

GroupDoc(letter, rows) == Doc(<<Div(letter, rows)>>)

\* rows of the detail table: the title row with two headings and with one,
\* the status row, the case-number row with and without the court, a row
\* with another label and a row of one cell
DetailRowKinds ==
  LET row == [cells |-> 2, nadpis |-> FALSE, h2 |-> <<>>, label |-> <<"x">>,
              value |-> <<"x">>, strong |-> NoMatch, court |-> NoMatch]
  IN {[row EXCEPT !.nadpis = TRUE, !.h2 = <<<<"h">>, <<"n", "a", "m", "e">>>>],
      [row EXCEPT !.nadpis = TRUE, !.h2 = <<<<"h">>>>],
      [row EXCEPT !.label = <<"Aktualni stav", ":">>, !.value = <<"s">>],
      [row EXCEPT !.label = <<"Spisova znacka">>, !.strong = <<"1", "2">>,
                  !.court = <<"c">>],
      [row EXCEPT !.label = <<"Spisova znacka">>, !.strong = <<"3">>],
      row,
      [row EXCEPT !.cells = 1, !.label = <<"Aktualni stav">>]}

DetailDocs ==
  {[detail |-> [present |-> TRUE, rows |-> rows],
    divs |-> <<Div(<<"A">>, <<PlainRow(A1, 5)>>)>>] :
     rows \in SeqsUpTo(DetailRowKinds, 2)}

Ok(doc) == [kind |-> "ok", doc |-> doc, message |-> ""]

\* requests.get raises, or raise_for_status does
Failures ==
  {[kind |-> "error", doc |-> NoDoc, message |-> m] :
     m \in {"ConnectionError", "ReadTimeout", "404 Client Error"}}

Responses(docs) == {Ok(d) : d \in docs} \cup Failures

\* what the requests of each specification may fetch
ConcurrentResponses == Responses(ListDocs)
SequentialResponses == Responses(ListDocs \cup OddDocs)
SinglePassResponses ==
  Responses(LinkDocs \cup SpanDocs \cup DetailDocs \cup OddDocs \cup ListDocs
              \cup {OrderDoc})

Urls == {"u1", "u2"}

\* the request threads of the server
Threads == {"t1", "t2"}

(***************************************************************************)
(* The records a success result holds.                                     *)
(***************************************************************************)
Range(seq) == {seq[i] : i \in 1..Len(seq)}

\* the records of a section's value, flat or grouped
SectionRecords(tag, value) ==
  IF Grouped(tag) THEN UNION {Range(value[i].entries) : i \in 1..Len(value)}
  ELSE Range(value)

\* the records of a success result
Records(result) ==
  UNION {SectionRecords(tag, result.sections[tag]) :
           tag \in DOMAIN result.sections}

(***************************************************************************)
(* The state: the engine, the calls in progress, and the history the       *)
(* properties refer to.                                                    *)
(***************************************************************************)
VARIABLES
  seen_ids,     \* checker.seen_ids
  call,         \* the locals of each thread's call of fetch_and_parse
  passes,       \* the number of requests accepted so far
  request,      \* history: each thread's url and the response it fetched
  seen_before,  \* history: seen_ids when the thread's call began
  served,       \* history: the urls of the successful passes delivered
  previous,     \* history: the call delivered last
  base,         \* history: seen_ids when the engine was last at rest
  log,          \* history: the calls delivered since then
  returned_ids, \* history: the ids of the records of the successes delivered
  page          \* the script of the page: its globals and its requests

\* the variables of the server
server ==
  <<seen_ids, call, passes, request, seen_before, served, previous, base, log,
    returned_ids>>

vars == <<server, page>>

\* line 883: the countdown of the page, in seconds
Countdown == 300

\* lines 723-725: the page as loaded
\*   timer          whether an interval is set
\*   secondsLeft, monitoringUrl   the globals of these names
\*   kickoff        whether the timeout of line 744 is pending
\*   in_flight      the fetches of line 751 that await their response
\*   fired          history: the checks the timer triggered since it was set
Loaded ==
  [timer |-> FALSE, secondsLeft |-> Countdown, monitoringUrl |-> "",
   kickoff |-> FALSE, in_flight |-> 0, fired |-> 0]

NoRequest == [url |-> "", response |-> Ok(NoDoc)]
NoCall == [url |-> "", response |-> Ok(NoDoc), result |-> NoResult]

AtRest == \A t \in Threads : call[t].pc = "idle"

Init ==
  /\ seen_ids = {}
  /\ call = [t \in Threads |-> Idle]
  /\ passes = 0
  /\ request = [t \in Threads |-> NoRequest]
  /\ seen_before = [t \in Threads |-> {}]
  /\ served = {}
  /\ previous = NoCall
  /\ base = {}
  /\ log = <<>>
  /\ returned_ids = {}
  /\ page = Loaded

\* lines 908-911: a request enters fetch_and_parse on the one engine
Check(t, url, response) ==
  /\ call[t].pc = "idle"
  /\ passes < MaxPasses
  /\ passes' = passes + 1
  /\ call' = [call EXCEPT ![t] = Fetch(url, response)]
  /\ request' = [request EXCEPT ![t] = [url |-> url, response |-> response]]
  /\ seen_before' = [seen_before EXCEPT ![t] = seen_ids]
  /\ base' = IF AtRest THEN seen_ids ELSE base
  /\ log' = IF AtRest THEN <<>> ELSE log
  /\ UNCHANGED <<seen_ids, served, previous, returned_ids, page>>

Local(t, next) ==
  /\ call' = [call EXCEPT ![t] = next]
  /\ UNCHANGED <<seen_ids, passes, request, seen_before, served, previous,
                 base, log, returned_ids, page>>

\* lines 82-95
Section(t) == AtSection(call[t]) /\ Local(t, EnterSection(call[t]))

\* a row step that adds the id to the engine's seen ids at once
RowEager(t) ==
  /\ AtRow(call[t])
  /\ call' = [call EXCEPT ![t] = ParseRow(call[t], seen_ids)]
  /\ seen_ids' = seen_ids \cup call'[t].current_batch_ids
  /\ UNCHANGED <<passes, request, seen_before, served, previous, base, log,
                 returned_ids, page>>

\* lines 97-201
Row(t) == AtRow(call[t]) /\ Local(t, ParseRow(call[t], seen_ids))

\* lines 203-233
Close(t) == AtEndOfRows(call[t]) /\ Local(t, CloseSection(call[t]))

\* a commit that assigns the batch instead of uniting it
CommitOverwrite(t) ==
  /\ AtCommit(call[t])
  /\ seen_ids' = call[t].current_batch_ids
  /\ call' = [call EXCEPT ![t] = Succeed(call[t])]
  /\ UNCHANGED <<passes, request, seen_before, served, previous, base, log,
                 returned_ids, page>>

\* lines 235-240
Commit(t) ==
  /\ AtCommit(call[t])
  /\ seen_ids' = seen_ids \cup call[t].current_batch_ids
  /\ call' = [call EXCEPT ![t] = Succeed(call[t])]
  /\ UNCHANGED <<passes, request, seen_before, served, previous, base, log,
                 returned_ids, page>>

\* line 911: the result goes to the client
Return(t) ==
  LET done == [url |-> request[t].url, response |-> request[t].response,
               result |-> call[t].result]
  IN /\ call[t].pc = "done"
     /\ call' = [call EXCEPT ![t] = Idle]
     /\ request' = [request EXCEPT ![t] = NoRequest]
     /\ seen_before' = [seen_before EXCEPT ![t] = {}]
     /\ served' = IF call[t].result.status = "success"
                  THEN served \cup {request[t].url} ELSE served
     /\ previous' = done
     /\ log' = Append(log, done)
     /\ returned_ids' =
          IF call[t].result.status = "success"
          THEN returned_ids \cup {e.id : e \in Records(call[t].result)}
          ELSE returned_ids
     /\ UNCHANGED <<seen_ids, passes, base, page>>

Pass(t) == Section(t) \/ Row(t) \/ Close(t) \/ Commit(t) \/ Return(t)

\* the server runs the requests on concurrent threads
Next ==
  \/ /\ passes < MaxPasses
     /\ \E t \in Threads, url \in Urls, response \in ConcurrentResponses :
          Check(t, url, response)
  \/ \E t \in Threads : Pass(t)

Spec == Init /\ [][Next]_vars

\* one request at a time
NextSeq ==
  \/ /\ AtRest /\ passes < MaxPasses
     /\ \E t \in Threads, url \in Urls, response \in SequentialResponses :
          Check(t, url, response)
  \/ \E t \in Threads : Pass(t)

SpecSeq == Init /\ [][NextSeq]_vars

\* a request thread that is inside fetch_and_parse keeps running
SpecSeqFair == SpecSeq /\ \A t \in Threads : WF_vars(Pass(t))

\* one pass over one document
NextParse ==
  \/ /\ passes = 0
     /\ \E response \in SinglePassResponses : Check("t1", "u1", response)
  \/ /\ passes = 0
     /\ \E letter \in {<<"C">>, <<"P">>}, k \in 0..MaxGroupRows :
          \E rows \in [1..k -> GroupRowsOf(letter)] :
            Check("t1", "u1", Ok(GroupDoc(letter, rows)))
  \/ \E t \in Threads : Pass(t)

SpecParse == Init /\ [][NextParse]_vars

(***************************************************************************)
(* The script of the page, lines 723-776 and 882-892.  The server is seen  *)
(* from the page: a request is answered with a success result, with an     *)
(* error result, or the fetch fails.                                       *)
(***************************************************************************)
Outcomes == {"success", "error", "throw"}

\* lines 727-746: the start button, with a URL in the input
StartMonitoring ==
  /\ page.monitoringUrl = ""
  /\ page' = [page EXCEPT !.monitoringUrl = "u1", !.kickoff = TRUE]
  /\ UNCHANGED server

\* lines 750-755: triggerCheck up to its await
Fetching(p) == [p EXCEPT !.in_flight = @ + 1]

\* lines 744-746: the timeout of startMonitoring calls triggerCheck
Kickoff ==
  /\ page.kickoff
  /\ page.in_flight < MaxInFlight
  /\ page' = Fetching([page EXCEPT !.kickoff = FALSE])
  /\ UNCHANGED server

\* lines 882-892: resetTimer sets the countdown and replaces the interval
resetTimer(p) ==
  [p EXCEPT !.secondsLeft = Countdown, !.timer = TRUE, !.fired = 0]

\* lines 756-775: triggerCheck from its await on
Respond(outcome) ==
  /\ page.in_flight > 0
  /\ page' = IF outcome = "success"
             THEN resetTimer([page EXCEPT !.in_flight = @ - 1])
             ELSE [page EXCEPT !.in_flight = @ - 1]
  /\ UNCHANGED server

\* lines 885-891: the callback of the interval
Tick ==
  /\ page.timer
  /\ page.secondsLeft > -MaxOverdue
  /\ LET ticked == [page EXCEPT !.secondsLeft = @ - 1]
     IN IF ticked.secondsLeft <= 0
        THEN /\ page.in_flight < MaxInFlight
             /\ page' = Fetching([ticked EXCEPT !.fired = @ + 1])
        ELSE page' = ticked
  /\ UNCHANGED server

NextPage ==
  \/ StartMonitoring
  \/ Kickoff
  \/ \E outcome \in Outcomes : Respond(outcome)
  \/ Tick

SpecPage == Init /\ [][NextPage]_vars

(***************************************************************************)
(* What the properties speak of.                                           *)
(***************************************************************************)
Done(t) == call[t].pc = "done"
Success(t) == Done(t) /\ call[t].result.status = "success"
Failed(t) == Done(t) /\ call[t].result.status = "error"

\* the document a thread fetched
DocOf(t) == request[t].response.doc

NewRecords(result) == {e \in Records(result) : e.is_new}

\* the containers of the five tags that hold a table, and their data rows
Recognised(doc) ==
  {i \in 1..Len(doc.divs) :
     Upper(doc.divs[i].suffix) \in SectionTags /\ doc.divs[i].has_table}

RowsOf(doc, i) == Range(DataRows(doc.divs[i].table))

AcceptedIds(doc) ==
  UNION {{r[1].text : r \in {q \in RowsOf(doc, i) : Len(q) >= 5}} :
           i \in Recognised(doc)}

\* the ids of the rows that a pass must not record: short rows, and rows of
\* containers outside the five tags
UnrecordedIds(doc) ==
  UNION {{r[1].text : r \in {q \in RowsOf(doc, i) : Len(q) \in 1..4}} :
           i \in Recognised(doc)}
  \cup UNION {{r[1].text : r \in {q \in RowsOf(doc, i) : Len(q) >= 1}} :
           i \in {j \in 1..Len(doc.divs) :
                    Upper(doc.divs[j].suffix) \notin SectionTags}}

(***************************************************************************)
(* C1.  In sequential passes a record is flagged new exactly when the      *)
(* seen-set was non-empty when the pass began and did not hold the         *)
(* record's id then; ids collected earlier in the same pass do not count.  *)
(***************************************************************************)
C1_IsNewAgainstSeenBefore ==
  \A t \in Threads :
    Success(t) =>
      \A e \in Records(call[t].result) :
        e.is_new = (seen_before[t] # {} /\ e.id \notin seen_before[t])

\* a pass after a successful one that flags exactly one of its two records
C1_Witness ==
  \E t \in Threads :
    /\ Success(t)
    /\ previous.result.status = "success"
    /\ seen_before[t] # {}
    /\ Cardinality(Records(call[t].result)) = 2
    /\ Cardinality(NewRecords(call[t].result)) = 1

(***************************************************************************)
(* C2.  The first successful pass for a url flags no record as new,        *)
(* whatever other urls were served before it.                              *)
(***************************************************************************)
C2_FirstPassOfUrlFlagsNothing ==
  \A t \in Threads :
    (Success(t) /\ request[t].url \notin served) =>
      NewRecords(call[t].result) = {}

(***************************************************************************)
(* C3.  The seen-set never loses an id, and the commit of a successful     *)
(* pass makes it the seen-set from before the pass united with the ids of  *)
(* the rows accepted in the pass.                                          *)
(***************************************************************************)
C3_SeenGrowsByAcceptedIds ==
  [][/\ seen_ids \subseteq seen_ids'
     /\ \A t \in Threads :
          (call[t].pc # "done" /\ call'[t].pc = "done"
             /\ call'[t].result.status = "success") =>
            seen_ids' = seen_before[t] \cup AcceptedIds(DocOf(t))]_vars

\* a successful pass over a document with a row or container that must not
\* be recorded, which added an id to a non-empty seen-set
C3_Witness ==
  \E t \in Threads :
    /\ Success(t)
    /\ seen_before[t] # {}
    /\ seen_ids # seen_before[t]
    /\ UnrecordedIds(DocOf(t)) # {}
    /\ UnrecordedIds(DocOf(t)) \cap seen_ids = {}

(***************************************************************************)
(* C4.  Overlapping calls behave as if each ran alone in some order: the   *)
(* results delivered since the engine was last at rest, and the seen-set   *)
(* they leave, are those of running the same calls one after another.      *)
(***************************************************************************)
\* a call run to its end against an unchanging seen-set
RECURSIVE RunAlone(_, _)
RunAlone(c, seen) ==
  IF c.pc = "done" THEN c
  ELSE IF AtCommit(c) THEN Succeed(c)
  ELSE IF AtSection(c) THEN RunAlone(EnterSection(c), seen)
  ELSE IF AtRow(c) THEN RunAlone(ParseRow(c, seen), seen)
  ELSE RunAlone(CloseSection(c), seen)

SeenAfter(c, seen) ==
  IF c.result.status = "success" THEN seen \cup c.current_batch_ids ELSE seen

\* running the calls in the given order from seen gives the logged results
\* and ends in the engine's seen-set
RECURSIVE Explains(_, _, _)
Explains(order, calls, seen) ==
  IF Len(order) = 0 THEN seen = seen_ids
  ELSE LET this == calls[order[1]]
           c == RunAlone(Fetch(this.url, this.response), seen)
       IN /\ c.result = this.result
          /\ Explains(Tail(order), calls, SeenAfter(c, seen))

Orders(n) == {f \in [1..n -> 1..n] : \A i, j \in 1..n : f[i] = f[j] => i = j}

C4_OverlappingPassesSerializable ==
  (AtRest /\ Len(log) > 0) =>
    \E order \in Orders(Len(log)) : Explains(order, log, base)

(***************************************************************************)
(* C5.  A failure result leaves the seen-set as it was before the call,    *)
(* and is {status: error, message}; a failed fetch reports the error's     *)
(* description.                                                            *)
(***************************************************************************)
C5_FailureLeavesSeenUnchanged ==
  \A t \in Threads :
    Failed(t) =>
      /\ seen_ids = seen_before[t]
      /\ DOMAIN call[t].result = {"status", "message"}
      /\ request[t].response.kind = "error" =>
           call[t].result.message = request[t].response.message

\* a pass that raised after it had collected an id the engine never saw
C5_Witness ==
  \E t \in Threads :
    /\ Failed(t)
    /\ request[t].response.kind = "ok"
    /\ call[t].current_batch_ids # {}
    /\ ~(call[t].current_batch_ids \subseteq seen_ids)

(***************************************************************************)
(* C6.  A success result has an entry for each of the five tags, empty for *)
(* a tag whose container the document lacks.                               *)
(***************************************************************************)
TagsOf(doc) == {Upper(doc.divs[i].suffix) : i \in 1..Len(doc.divs)}

C6_AllFiveTagsPresent ==
  \A t \in Threads :
    Success(t) =>
      /\ DOMAIN call[t].result.sections = SectionTags
      /\ \A tag \in SectionTags \ TagsOf(DocOf(t)) :
           call[t].result.sections[tag] = <<>>

(***************************************************************************)
(* C7.  A row of section C or P with at least 5 and fewer than 9 columns   *)
(* gives a record without group metadata, and the pass succeeds.           *)
(***************************************************************************)
NarrowRows(doc) ==
  UNION {{q \in RowsOf(doc, i) : Len(q) >= 5 /\ Len(q) < 9} :
           i \in {j \in Recognised(doc) : Grouped(Upper(doc.divs[j].suffix))}}

C7_NarrowRowsHaveNoMetadata ==
  \A t \in Threads :
    (Done(t) /\ request[t].response.kind = "ok"
       /\ NarrowRows(DocOf(t)) # {}) =>
      /\ Success(t)
      /\ \A r \in NarrowRows(DocOf(t)) :
           \E e \in Records(call[t].result) :
             e.id = r[1].text /\ e.additional_info = EMPTY

(***************************************************************************)
(* C8.  A row with a direct link and an inline reference.                  *)
(***************************************************************************)
Min(S) == CHOOSE m \in S : \A n \in S : m <= n

DirectCols(cells) == {i \in 1..Len(cells) : cells[i].href # NoHref}

InlineCols(cells) ==
  {i \in 1..Len(cells) : \E k \in 1..Len(cells[i].onclicks) :
     OnclickMatch(cells[i].onclicks[k]) # NoMatch}

HasBoth(cells) == DirectCols(cells) # {} /\ InlineCols(cells) # {}

DirectUrls(cells) == {AbsoluteUrl(cells[i].href) : i \in DirectCols(cells)}

\* the first inline reference of a cell that embeds a numeric id
FirstInline(cell) ==
  cell.onclicks[Min({k \in 1..Len(cell.onclicks) :
                       OnclickMatch(cell.onclicks[k]) # NoMatch})].arg

\* the accepted rows of a table in the order of the result
AcceptedRows(div) ==
  LET rows == Reverse(DataRows(div.table))
      kept == {i \in 1..Len(rows) : Len(rows[i]) >= 5}
      Nth(n) == CHOOSE i \in kept : Cardinality({j \in kept : j <= i}) = n
  IN [n \in 1..Cardinality(kept) |-> rows[Nth(n)]]

\* the container that supplies the tag's value: the last one of that tag
LastDiv(doc, tag) ==
  doc.divs[CHOOSE i \in 1..Len(doc.divs) :
             /\ Upper(doc.divs[i].suffix) = tag
             /\ \A j \in (i + 1)..Len(doc.divs) :
                  Upper(doc.divs[j].suffix) # tag]

\* the flat sections of a success result that come from a table
FlatTags(t) ==
  {tag \in DOMAIN call[t].result.sections :
     ~Grouped(tag) /\ LastDiv(DocOf(t), tag).has_table}

\* C8, as claimed: with both kinds in the row, in whatever columns,
\* attachment_url is a direct link's URL
C8_DirectLinkAlwaysWins ==
  \A t \in Threads :
    Success(t) =>
      \A tag \in FlatTags(t) :
        LET rows == AcceptedRows(LastDiv(DocOf(t), tag))
            entries == call[t].result.sections[tag]
        IN \A i \in 1..Len(rows) :
             HasBoth(rows[i]) =>
               /\ i <= Len(entries)
               /\ entries[i].pdf_url \in DirectUrls(rows[i])

\* C8, amended: with both kinds in the row, attachment_url is the URL of the
\* leftmost direct link unless an inline reference sits in a column to the
\* left of it, and then it is the URL synthesized from the first inline
\* reference of the leftmost such column
C8_LeftmostColumnWins ==
  \A t \in Threads :
    Success(t) =>
      \A tag \in FlatTags(t) :
        LET rows == AcceptedRows(LastDiv(DocOf(t), tag))
            entries == call[t].result.sections[tag]
        IN \A i \in 1..Len(rows) :
             HasBoth(rows[i]) =>
               LET d == Min(DirectCols(rows[i]))
                   n == Min(InlineCols(rows[i]))
               IN /\ i <= Len(entries)
                  /\ entries[i].has_valid_doc
                  /\ entries[i].pdf_url =
                       IF d <= n THEN AbsoluteUrl(rows[i][d].href)
                       ELSE <<HOST, "/", DOCPATH, FirstInline(rows[i][n])>>

\* a result whose row holds an inline reference to the left of its direct
\* link, and whose attachment_url is no direct link's URL
C8_Witness ==
  \E t \in Threads :
    /\ Success(t)
    /\ \E tag \in FlatTags(t) :
         LET rows == AcceptedRows(LastDiv(DocOf(t), tag))
             entries == call[t].result.sections[tag]
         IN \E i \in 1..Len(rows) :
              /\ HasBoth(rows[i])
              /\ Min(InlineCols(rows[i])) < Min(DirectCols(rows[i]))
              /\ entries[i].pdf_url \notin DirectUrls(rows[i])

(***************************************************************************)
(* C9.  The metadata of a group.                                           *)
(***************************************************************************)
\* the group_metadata of the first of the members that carries one
FirstMeta(members) ==
  LET with == {i \in 1..Len(members) : members[i].additional_info # EMPTY}
  IN IF with = {} THEN EMPTY ELSE members[Min(with)].additional_info

GroupsOf(t) ==
  UNION {Range(call[t].result.sections[tag]) :
           tag \in {g \in DOMAIN call[t].result.sections : Grouped(g)}}

\* C9, as claimed: the first member in the document's row order, which is
\* the reverse of the order of the members, the catch-all group included
C9_FirstInSourceOrder ==
  \A t \in Threads :
    Success(t) =>
      \A g \in GroupsOf(t) : g.metadata = FirstMeta(Reverse(g.entries))

\* C9, amended: the first member in the order of the result (oldest first,
\* the reverse of the document's row order); the catch-all group has none
C9_FirstInResultOrder ==
  \A t \in Threads :
    Success(t) =>
      \A g \in GroupsOf(t) :
        g.metadata = IF g.group = Other THEN EMPTY ELSE FirstMeta(g.entries)

\* a result with a group whose first and last carrying members differ, and
\* with a catch-all group that has a member carrying metadata
C9_Witness ==
  \E t \in Threads :
    /\ Success(t)
    /\ \E g \in GroupsOf(t) :
         /\ g.group # Other
         /\ FirstMeta(g.entries) # FirstMeta(Reverse(g.entries))
    /\ \E g \in GroupsOf(t) :
         g.group = Other /\ FirstMeta(g.entries) # EMPTY

(***************************************************************************)
(* C10.  A document processed twice in a row, with an accepted row: the    *)
(* second pass flags no record as new and leaves the seen-set unchanged.   *)
(***************************************************************************)
C10_SameDocumentTwice ==
  \A t \in Threads :
    (/\ Done(t)
     /\ request[t].response.kind = "ok"
     /\ previous.response = request[t].response
     /\ AcceptedIds(DocOf(t)) # {}) =>
      /\ seen_ids = seen_before[t]
      /\ Success(t) => NewRecords(call[t].result) = {}

\* the second of two successful passes over a document with accepted rows
C10_Witness ==
  \E t \in Threads :
    /\ Success(t)
    /\ previous.result.status = "success"
    /\ previous.response = request[t].response
    /\ Records(call[t].result) # {}

(***************************************************************************)
(* C11.  Every call of fetch_and_parse ends, and ends in exactly one of    *)
(* the two results: a success carrying sections and case_info, or the      *)
(* failure {status: error, message} without any of the sections built      *)
(* before the exception.                                                   *)
(***************************************************************************)
WellFormed(result) ==
  \/ /\ result.status = "success"
     /\ DOMAIN result = {"status", "sections", "case_info"}
  \/ /\ result.status = "error"
     /\ DOMAIN result = {"status", "message"}

C11_NoErrorEscapes ==
  /\ [](\A t \in Threads : Done(t) => WellFormed(call[t].result))
  /\ \A t \in Threads : (call[t].pc # "idle") ~> Done(t)

\* a pass that raised after it had stored the value of a section
C11_Witness ==
  \E t \in Threads :
    /\ Failed(t)
    /\ request[t].response.kind = "ok"
    /\ DOMAIN call[t].sections # {}

(***************************************************************************)
(* C12.  The groups of a C or P section come in the natural order of their *)
(* keys: of two groups with the keys tag+m and tag+n, m < n, the first     *)
(* precedes the second; and no pass fails in computing the order, with or  *)
(* without the catch-all group.                                            *)
(***************************************************************************)
\* a key of the form tag+n with n in the digits 0-9, and its number
IsNumbered(key) ==
  Len(key) >= 2 /\ \A i \in 2..Len(key) : IsDigit(key[i])

NumberOf(key) == ToInt(Tail(key))

InNaturalOrder(value) ==
  \A i, j \in 1..Len(value) :
    (IsNumbered(value[i].group) /\ IsNumbered(value[j].group)
       /\ NumberOf(value[i].group) < NumberOf(value[j].group)) => i < j

SortFailed(t) == Failed(t) /\ call[t].result.message = SortMessage

C12_NaturalOrderNeverFails ==
  \A t \in Threads :
    /\ ~SortFailed(t)
    /\ Success(t) =>
         \A tag \in DOMAIN call[t].result.sections :
           Grouped(tag) => InNaturalOrder(call[t].result.sections[tag])

\* the part of C12 about the order alone
C12_NaturalOrder ==
  \A t \in Threads :
    Success(t) =>
      \A tag \in DOMAIN call[t].result.sections :
        Grouped(tag) => InNaturalOrder(call[t].result.sections[tag])

\* a result with the groups 2 and 10 and the catch-all group, whose rows
\* came with the group 10 ahead of the group 2
C12_Witness ==
  \E t \in Threads :
    /\ Success(t)
    /\ \E tag \in DOMAIN call[t].result.sections :
         /\ Grouped(tag)
         /\ LET value == call[t].result.sections[tag]
                entries == call[t].parsed_entries
            IN /\ {value[i].group : i \in 1..Len(value)}
                    = {tag \o <<"2">>, tag \o <<"1", "0">>, Other}
               /\ Len(entries) = 3
               /\ entries[1].id = tag \o <<"1", "0">>

(***************************************************************************)
(* C13.  A data row of a recognised section is in the result exactly when  *)
(* it has at least 5 columns: the records of the section are, id by id and *)
(* as many times, the rows of 5 columns or more, and a pass never fails    *)
(* over a row of fewer.                                                    *)
(***************************************************************************)
RECURSIVE Members(_)
Members(groups) ==
  IF Len(groups) = 0 THEN <<>>
  ELSE Head(groups).entries \o Members(Tail(groups))

\* the records of a section's value in the order of the value
EntriesOf(tag, value) == IF Grouped(tag) THEN Members(value) ELSE value

Occurrences(seq, x) == Cardinality({i \in 1..Len(seq) : seq[i] = x})

RecordIds(entries) == [i \in 1..Len(entries) |-> entries[i].id]
RowIds(rows) == [i \in 1..Len(rows) |-> rows[i][1].text]

\* the tags of a success result whose value comes from a table
TableTags(t) ==
  {tag \in DOMAIN call[t].result.sections : LastDiv(DocOf(t), tag).has_table}

\* a row of 5 columns or more on which the pass raises
RaisingRows(doc) ==
  UNION {{q \in RowsOf(doc, i) :
            Len(q) >= 5 /\ MetaRaises(Upper(doc.divs[i].suffix), q)} :
           i \in Recognised(doc)}

C13_RowsOfFiveColumnsOrMore ==
  \A t \in Threads :
    (Done(t) /\ request[t].response.kind = "ok") =>
      /\ Failed(t) => (SortFailed(t) \/ RaisingRows(DocOf(t)) # {})
      /\ Success(t) =>
           \A tag \in TableTags(t) :
             LET ids == RecordIds(EntriesOf(tag, call[t].result.sections[tag]))
                 rows == RowIds(AcceptedRows(LastDiv(DocOf(t), tag)))
             IN /\ Len(ids) = Len(rows)
                /\ \A x \in Range(ids) \cup Range(rows) :
                     Occurrences(ids, x) = Occurrences(rows, x)

\* a result from a table with a row of 4 columns and a row of 5, which
\* holds the second and not the first
C13_Witness ==
  \E t \in Threads :
    /\ Success(t)
    /\ \E tag \in TableTags(t) :
         \E r4, r5 \in Range(DataRows(LastDiv(DocOf(t), tag).table)) :
           /\ Len(r4) = 4 /\ Len(r5) = 5
           /\ \E e \in Records(call[t].result) : e.id = r5[1].text
           /\ \A e \in Records(call[t].result) : e.id # r4[1].text

(***************************************************************************)
(* C14.  A document without the metadata block gives a success whose       *)
(* case_info is the empty mapping; apart from case_info the result, and    *)
(* the seen-set after the pass, are those of the same document with a      *)
(* metadata block.                                                         *)
(***************************************************************************)
\* metadata blocks: an empty table, and a table of one row of each kind
SomeDetails ==
  {[present |-> TRUE, rows |-> rows] : rows \in SeqsUpTo(DetailRowKinds, 1)}

\* what a result says apart from case_info
ApartFromInfo(result) ==
  IF result.status = "success"
  THEN [status |-> result.status, sections |-> result.sections]
  ELSE result

C14_AbsentMetadataBlock ==
  \A t \in Threads :
    (/\ Done(t)
     /\ request[t].response.kind = "ok"
     /\ ~DocOf(t).detail.present) =>
      /\ Success(t) => call[t].result.case_info = EmptyDict
      /\ \A d \in SomeDetails :
           LET with == Ok([DocOf(t) EXCEPT !.detail = d])
               c == RunAlone(Fetch(request[t].url, with), seen_before[t])
           IN /\ ApartFromInfo(c.result) = ApartFromInfo(call[t].result)
              /\ SeenAfter(c, seen_before[t]) = seen_ids

\* a successful pass over a document without the block that returned
\* records and added an id to the seen-set
C14_Witness ==
  \E t \in Threads :
    /\ Success(t)
    /\ ~DocOf(t).detail.present
    /\ call[t].result.case_info = EmptyDict
    /\ Records(call[t].result) # {}
    /\ seen_ids # seen_before[t]

(***************************************************************************)
(* C15.  In sequential passes an id returned in an earlier success is      *)
(* never flagged new again, whether or not the passes in between held it;  *)
(* so an id is flagged new in at most one pass.                            *)
(***************************************************************************)
C15_NeverFlaggedAgain ==
  \A t \in Threads :
    Success(t) =>
      \A e \in NewRecords(call[t].result) : e.id \notin returned_ids

\* a pass that holds, unflagged, an id of an earlier success that the
\* success before it lacked, and that flags another id
C15_Witness ==
  \E t \in Threads :
    /\ Success(t)
    /\ previous.result.status = "success"
    /\ NewRecords(call[t].result) # {}
    /\ \E e \in Records(call[t].result) :
         /\ e.id \in returned_ids
         /\ ~e.is_new
         /\ \A p \in Records(previous.result) : p.id # e.id

(***************************************************************************)
(* C16.  The groups of a C or P section partition its accepted records:    *)
(* no group is empty, the keys are pairwise distinct, every member's id    *)
(* has the group's key as its leading tag+digits prefix (the catch-all key *)
(* when it has none), and the members are as many as the accepted rows.    *)
(* The value of section A, B or D is a sequence of records.                *)
(***************************************************************************)
\* the lengths of the prefixes of id made of the tag and one or more digits
PrefixLengths(tag, id) ==
  {k \in 2..Len(id) :
     <<id[1]>> = tag /\ \A i \in 2..k : IsDecimal(id[i])}

Max(S) == CHOOSE m \in S : \A n \in S : n <= m

\* the key of the group an id belongs to
LeadingKey(tag, id) ==
  IF PrefixLengths(tag, id) = {} THEN Other
  ELSE SubSeq(id, 1, Max(PrefixLengths(tag, id)))

IsRecord(x) ==
  DOMAIN x = {"id", "time", "desc", "pdf_url", "is_new", "additional_info",
              "is_greyed", "has_valid_doc"}

IsGroup(x) == DOMAIN x = {"group", "entries", "metadata"}

IsPartition(tag, value, rows) ==
  /\ \A i \in 1..Len(value) :
       /\ IsGroup(value[i])
       /\ Len(value[i].entries) > 0
       /\ \A k \in 1..Len(value[i].entries) :
            /\ IsRecord(value[i].entries[k])
            /\ LeadingKey(tag, value[i].entries[k].id) = value[i].group
  /\ \A i, j \in 1..Len(value) : value[i].group = value[j].group => i = j
  /\ Len(Members(value)) = Len(rows)

IsFlat(value, rows) ==
  /\ \A i \in 1..Len(value) : IsRecord(value[i])
  /\ Len(value) = Len(rows)

C16_GroupsPartitionRecords ==
  \A t \in Threads :
    Success(t) =>
      \A tag \in TableTags(t) :
        LET value == call[t].result.sections[tag]
            rows == AcceptedRows(LastDiv(DocOf(t), tag))
        IN IF Grouped(tag) THEN IsPartition(tag, value, rows)
           ELSE IsFlat(value, rows)

\* a grouped section of three records in a group of two and the catch-all
\* group
C16_Witness ==
  \E t \in Threads :
    /\ Success(t)
    /\ \E tag \in TableTags(t) :
         /\ Grouped(tag)
         /\ LET value == call[t].result.sections[tag]
            IN /\ Len(value) = 2
               /\ Len(Members(value)) = 3
               /\ \E i \in 1..2 : value[i].group = Other
               /\ \E i \in 1..2 :
                    /\ Len(value[i].entries) = 2
                    /\ value[i].entries[1].id # value[i].entries[2].id

(***************************************************************************)
(* C17.  The first row of a table is skipped as its header; the records of *)
(* a section are those of the remaining rows of 5 columns or more in the   *)
(* reverse of the document's order, and the members of a group are the     *)
(* records of its key in that same order.                                  *)
(***************************************************************************)
\* the rows of a table after its header, in the order of the document
SourceRows(table) == [i \in 1..(Len(table) - 1) |-> table[i + 1]]

HasFiveCells(row) == Len(row) >= 5

\* the records of a table, oldest first
Expected(t, tag) ==
  LET rows == SelectSeq(SourceRows(LastDiv(DocOf(t), tag).table), HasFiveCells)
  IN Reverse([i \in 1..Len(rows) |-> Entry(tag, rows[i], seen_before[t])])

C17_ReverseOfSourceOrder ==
  \A t \in Threads :
    Success(t) =>
      \A tag \in TableTags(t) :
        LET value == call[t].result.sections[tag]
        IN IF Grouped(tag)
           THEN \A i \in 1..Len(value) :
                  value[i].entries =
                    SelectSeq(Expected(t, tag),
                              LAMBDA e : LeadingKey(tag, e.id) = value[i].group)
           ELSE value = Expected(t, tag)

\* a result with a flat section of two different records from a table
\* whose header is made of <td> cells, and a group of two different members
C17_Witness ==
  \E t \in Threads :
    /\ Success(t)
    /\ \E tag \in TableTags(t) :
         /\ ~Grouped(tag)
         /\ Len(LastDiv(DocOf(t), tag).table[1]) >= 5
         /\ Len(call[t].result.sections[tag]) = 2
         /\ call[t].result.sections[tag][1] # call[t].result.sections[tag][2]
    /\ \E g \in GroupsOf(t) :
         Len(g.entries) = 2 /\ g.entries[1] # g.entries[2]

(***************************************************************************)
(* C18.  The timer of the page triggers at most one check per expiry of    *)
(* the countdown, and the page never has two checks awaiting their         *)
(* response.                                                               *)
(***************************************************************************)
C18_OneCheckPerExpiry ==
  /\ page.fired <= 1
  /\ page.in_flight <= 1

=============================================================================
